---- MODULE Spec2Model ----
(***************************************************************************)
(* Model of crunchy-cli-core/src/cli/utils.rs: download_segments (the      *)
(* partitioner, the fetch-decrypt workers, the completion channel, the     *)
(* reassembly loop and the progress arithmetic).                           *)
(*                                                                         *)
(* A segment is identified by its position in `segments` (0-based).  A     *)
(* payload is a record [seg, len]: the segment it was fetched from and the *)
(* length of the decrypted buffer.                                         *)
(***************************************************************************)
EXTENDS Integers, Sequences, FiniteSets, TLC

\* ------------------------------------------------------------------ bounds
MaxSegs == 3
MaxCpus == 3
\* retry_ctr and the count of failed attempts stop counting (saturate) here
MaxFails == 2
\* the partitioner is also checked on its own up to these sizes
MaxPartSegs == 9
MaxPartCpus == 4
\* the segments of the runs checked for termination and for the retry
\* bound, and where their count of failed attempts saturates
MaxLiveSegs == 2
MaxLiveFails == 5

\* find_resolution is checked on lists of up to MaxVariants variants of these
\* widths and heights, ffmpeg_presets on lists of up to MaxPresets presets
MaxWidth == 2
MaxHeight == 2
MaxVariants == 3
MaxPresets == 3

\* heights are U64_MIN .. U64_MAX; the real heights lie strictly between
\* the two sentinels u64::MIN and u64::MAX
U64_MIN == 0
U64_MAX == MaxHeight + 1
Heights == U64_MIN .. U64_MAX

\* what a segment is drawn from: its expected duration in whole seconds
\* (0 also when there is none) and the length of its decrypted payload;
\* one kind is over-estimated by the bandwidth, the other under-estimated
SegKinds == {[secs |-> 1, size |-> 0], [secs |-> 0, size |-> 2]}
Bandwidths == {9}
Levels == {"off", "info", "debug"}

Workers == 0 .. (MaxCpus - 1)
NoMsg == [pos |-> -1, seg |-> -1, len |-> 0]

VARIABLES
    total_segments, \* segments.len()
    cpus,           \* num_cpus::get()
    level,          \* log::max_level(), as far as the function reads it
    bandwidth,      \* variant_data.bandwidth
    length,         \* segment -> s.length.unwrap_or_default().as_secs()
    size,           \* segment -> length of the segment's decrypted payload
    segs,           \* Vec<Vec<VariantSegment>>, the partition
    mpc,            \* where the body of download_segments is
    num,            \* the spawn loop's counter
    sender,         \* the function still holds its own `sender`
    chan,           \* the mpsc channel: messages sent and not yet received
    msg,            \* (pos, bytes) of the loop iteration in progress
    data_pos,       \* the write cursor
    buf,            \* the BTreeMap, as the set of its (position, payload) entries
    sink,           \* the payloads `writer` accepted, in order
    result,         \* what download_segments returned
    count,          \* the value behind the Mutex `count`
    lockHolder,     \* the worker that holds the MutexGuard, or -1
    p_len,          \* progress.length()
    p_pos,          \* progress.position()
    wpc,            \* where each worker task is
    thread_segments,\* each worker's sub-list
    wi,             \* each worker's enumerate() index i
    retry_ctr,      \* each worker's retry_ctr
    fails,          \* failed body reads of the worker's current segment
    resp,           \* the worker's `resp` is Ok
    wlen,           \* length of the worker's decrypted buf
    decryptCalls,   \* segment -> calls of VariantSegment::decrypt made for it
    decryptFailed,  \* the segments whose decrypt call returned an error
    writeCalls,     \* calls of writer.write_all made
    sinkFailed,     \* a write_all call returned an error
    streaming_data, \* find_resolution's argument streaming_data
    resolution,     \* find_resolution's argument resolution
    selected,       \* what find_resolution returned
    presets,        \* ffmpeg_presets' argument presets
    flags           \* what ffmpeg_presets returned

\* the two helper functions' calls: download_segments reads none of it
utilv == <<streaming_data, resolution, selected, presets, flags>>
inputs == <<total_segments, cpus, level, bandwidth, length, size, utilv>>
mainv == <<segs, mpc, num, sender, msg, data_pos, buf, sink, result, writeCalls, sinkFailed>>
progv == <<p_len, p_pos>>
workv == <<wpc, thread_segments, wi, retry_ctr, fails, resp, wlen, decryptCalls, decryptFailed>>
vars == <<inputs, mainv, progv, workv, chan, count, lockHolder>>

\* ----------------------------------------------------------- pure helpers
Min(a, b) == IF a < b THEN a ELSE b

RECURSIVE SumSecs(_, _)
\* segments.iter().map(|s| s.length...as_secs()).sum() over segments 0..n-1
SumSecs(len, n) == IF n = 0 THEN 0 ELSE len[n - 1] + SumSecs(len, n - 1)

EstimatedInBits(bw, len, n) == bw * SumSecs(len, n)
\* (variant_data.bandwidth / 8) * sum of the seconds
estimated_file_size(bw, len, n) == (bw \div 8) * SumSecs(len, n)

\* (variant_data.bandwidth / 8) * segments.get(pos).length.as_secs()
estimated_segment_len(bw, len, pos) == (bw \div 8) * len[pos]

BucketOfNext(i, n) == (i + 1) - (((i + 1) \div n) * n)
\* the bucket segment i is pushed to: segs[i - ((i / cpus) * cpus)]
Bucket(i, n) == i - ((i \div n) * n)

RECURSIVE PartitionFrom(_, _, _, _)
\* the loop `for (i, segment) in segments.enumerate()` from index i on
PartitionFrom(s, i, m, n) ==
    IF i >= m THEN s
    ELSE PartitionFrom([s EXCEPT ![Bucket(i, n) + 1] = Append(@, i)], i + 1, m, n)

\* segs after the two loops: n empty vectors, then every segment pushed
Partition(m, n) == PartitionFrom([w \in 1 .. n |-> <<>>], 0, m, n)

EmitIndexNoStride(w, i, n) == w + i
\* the index a worker sends: num + (i * cpus)
EmitIndex(w, i, n) == w + (i * n)

\* ------------------------------------------------------------------- Init
NotCalled == [tag |-> "not called"]

\* no call of find_resolution or of ffmpeg_presets made
UtilIdle ==
    /\ streaming_data = <<>>
    /\ resolution = [height |-> U64_MIN]
    /\ selected = NotCalled
    /\ presets = <<>>
    /\ flags = NotCalled

\* download_segments called
InitDownload ==
    /\ total_segments \in 0 .. MaxSegs
    /\ cpus \in 1 .. MaxCpus
    /\ level \in Levels
    /\ bandwidth \in Bandwidths
    /\ \E kind \in [0 .. (total_segments - 1) -> SegKinds] :
         /\ length = [s \in 0 .. (total_segments - 1) |-> kind[s].secs]
         /\ size = [s \in 0 .. (total_segments - 1) |-> kind[s].size]
    /\ segs = <<>>
    /\ mpc = "partition"
    /\ num = 0
    /\ sender = TRUE
    /\ chan = <<>>
    /\ msg = NoMsg
    /\ data_pos = 0
    /\ buf = {}
    /\ sink = <<>>
    /\ result = "running"
    /\ count = 0
    /\ lockHolder = -1
    /\ p_len = IF level = "info"
               THEN estimated_file_size(bandwidth, length, total_segments) ELSE 0
    /\ p_pos = 0
    /\ wpc = [w \in Workers |-> "none"]
    /\ thread_segments = [w \in Workers |-> <<>>]
    /\ wi = [w \in Workers |-> 0]
    /\ retry_ctr = [w \in Workers |-> 0]
    /\ fails = [w \in Workers |-> 0]
    /\ resp = [w \in Workers |-> TRUE]
    /\ wlen = [w \in Workers |-> 0]
    /\ decryptCalls = [s \in 0 .. (total_segments - 1) |-> 0]
    /\ decryptFailed = {}
    /\ writeCalls = 0
    /\ sinkFailed = FALSE

Init == InitDownload /\ UtilIdle

\* ---------------------------------------------------------------- workers
Spawned(w) == wpc[w] # "none"
Ended(w) == wpc[w] \in {"done", "err", "panic"}
\* a worker's thread_sender lives as long as its task
HoldsSender(w) == Spawned(w) /\ ~Ended(w)
\* the segment the worker's loop iteration is about
CurSeg(w) == thread_segments[w][wi[w] + 1]
\* dropping the JoinSet when download_segments returns aborts the tasks
Running == result = "running"

\* the first position of a task: the for loop's first element, or Ok(())
FirstPc(list) == IF Len(list) = 0 THEN "done" ELSE "fetch"

\* lines 87-99: the first request; a failed send() panics, a failed body
\* read goes to the retry branch
Fetch(w) ==
    /\ Running /\ wpc[w] = "fetch"
    /\ \/ /\ wpc' = [wpc EXCEPT ![w] = "panic"]
          /\ UNCHANGED fails
       \/ /\ wpc' = [wpc EXCEPT ![w] = "retry"]
          /\ fails' = [fails EXCEPT ![w] = 1]
       \/ /\ wpc' = [wpc EXCEPT ![w] = "decrypt"]
          /\ UNCHANGED fails
    /\ UNCHANGED <<inputs, mainv, progv, chan, count, lockHolder>>
    /\ UNCHANGED <<thread_segments, wi, retry_ctr, resp, wlen, decryptCalls, decryptFailed>>

\* lines 104-113: the second request; send().unwrap() panics, a failed body
\* read sets retry_ctr = 1 and enters the loop
Retry(w) ==
    /\ Running /\ wpc[w] = "retry"
    /\ \/ /\ wpc' = [wpc EXCEPT ![w] = "panic"]
          /\ UNCHANGED <<fails, retry_ctr, resp>>
       \/ /\ wpc' = [wpc EXCEPT ![w] = "loop"]
          /\ fails' = [fails EXCEPT ![w] = 2]
          /\ retry_ctr' = [retry_ctr EXCEPT ![w] = 1]
          /\ resp' = [resp EXCEPT ![w] = FALSE]
       \/ /\ wpc' = [wpc EXCEPT ![w] = "decrypt"]
          /\ UNCHANGED <<fails, retry_ctr, resp>>
    /\ UNCHANGED <<inputs, mainv, progv, chan, count, lockHolder>>
    /\ UNCHANGED <<thread_segments, wi, wlen, decryptCalls, decryptFailed>>

\* lines 120-127: one request of the loop; resp is its body read
LoopFetch(w) ==
    /\ Running /\ wpc[w] = "loop"
    /\ \/ /\ wpc' = [wpc EXCEPT ![w] = "panic"]
          /\ UNCHANGED resp
       \/ /\ wpc' = [wpc EXCEPT ![w] = "loop_chk"]
          /\ resp' = [resp EXCEPT ![w] = FALSE]
       \/ /\ wpc' = [wpc EXCEPT ![w] = "loop_chk"]
          /\ resp' = [resp EXCEPT ![w] = TRUE]
    /\ UNCHANGED <<inputs, mainv, progv, chan, count, lockHolder>>
    /\ UNCHANGED <<thread_segments, wi, retry_ctr, fails, wlen, decryptCalls, decryptFailed>>

\* lines 128-131: break when resp is Ok, else retry_ctr += 1 and go round
LoopCheck(w, cap) ==
    /\ Running /\ wpc[w] = "loop_chk"
    /\ IF resp[w]
       THEN /\ wpc' = [wpc EXCEPT ![w] = "decrypt"]
            /\ UNCHANGED <<retry_ctr, fails>>
       ELSE /\ wpc' = [wpc EXCEPT ![w] = "loop"]
            /\ retry_ctr' = [retry_ctr EXCEPT ![w] = Min(@ + 1, cap)]
            /\ fails' = [fails EXCEPT ![w] = Min(@ + 1, cap)]
    /\ UNCHANGED <<inputs, mainv, progv, chan, count, lockHolder>>
    /\ UNCHANGED <<thread_segments, wi, resp, wlen, decryptCalls, decryptFailed>>

DecryptErrorIgnored(w) ==
    /\ result = "running" /\ wpc[w] = "decrypt"
    /\ decryptCalls' = [decryptCalls EXCEPT ![thread_segments[w][wi[w] + 1]] = @ + 1]
    /\ wpc' = [wpc EXCEPT ![w] = "lock"]
    /\ wlen' = [wlen EXCEPT ![w] = size[thread_segments[w][wi[w] + 1]]]
    /\ \/ decryptFailed' = decryptFailed \cup {thread_segments[w][wi[w] + 1]}
       \/ UNCHANGED decryptFailed
    /\ UNCHANGED <<inputs, mainv, progv, chan, count, lockHolder>>
    /\ UNCHANGED <<thread_segments, wi, retry_ctr, fails, resp>>

\* line 138: VariantSegment::decrypt(..)? returns the error from the task
Decrypt(w) ==
    /\ Running /\ wpc[w] = "decrypt"
    /\ decryptCalls' = [decryptCalls EXCEPT ![CurSeg(w)] = @ + 1]
    /\ \/ /\ wpc' = [wpc EXCEPT ![w] = "err"]
          /\ decryptFailed' = decryptFailed \cup {CurSeg(w)}
          /\ UNCHANGED wlen
       \/ /\ wpc' = [wpc EXCEPT ![w] = "lock"]
          /\ wlen' = [wlen EXCEPT ![w] = size[CurSeg(w)]]
          /\ UNCHANGED decryptFailed
    /\ UNCHANGED <<inputs, mainv, progv, chan, count, lockHolder>>
    /\ UNCHANGED <<thread_segments, wi, retry_ctr, fails, resp>>

LockUnguarded(w) ==
    /\ result = "running" /\ wpc[w] = "lock"
    /\ lockHolder' = w
    /\ wpc' = [wpc EXCEPT ![w] = "send"]
    /\ UNCHANGED <<inputs, mainv, progv, chan, count>>
    /\ UNCHANGED <<thread_segments, wi, retry_ctr, fails, resp, wlen, decryptCalls, decryptFailed>>

\* line 140: thread_count.lock()
Lock(w) ==
    /\ Running /\ wpc[w] = "lock"
    /\ lockHolder = -1
    /\ lockHolder' = w
    /\ wpc' = [wpc EXCEPT ![w] = "send"]
    /\ UNCHANGED <<inputs, mainv, progv, chan, count>>
    /\ UNCHANGED <<thread_segments, wi, retry_ctr, fails, resp, wlen, decryptCalls, decryptFailed>>

\* line 148: thread_sender.send((num + (i * cpus), buf))
Send(w) ==
    /\ Running /\ wpc[w] = "send"
    /\ chan' = Append(chan, [pos |-> EmitIndex(w, wi[w], cpus),
                             seg |-> CurSeg(w), len |-> wlen[w]])
    /\ wpc' = [wpc EXCEPT ![w] = "incr"]
    /\ wlen' = [wlen EXCEPT ![w] = 0]
    /\ UNCHANGED <<inputs, mainv, progv, count, lockHolder>>
    /\ UNCHANGED <<thread_segments, wi, retry_ctr, fails, resp, decryptCalls, decryptFailed>>

IncrKeepsGuard(w) ==
    /\ result = "running" /\ wpc[w] = "incr"
    /\ count' = count + 1
    /\ wi' = [wi EXCEPT ![w] = @ + 1]
    /\ wpc' = [wpc EXCEPT ![w] =
                 IF wi[w] + 1 < Len(thread_segments[w]) THEN "fetch" ELSE "done"]
    /\ retry_ctr' = [retry_ctr EXCEPT ![w] = 0]
    /\ fails' = [fails EXCEPT ![w] = 0]
    /\ UNCHANGED <<inputs, mainv, progv, chan, lockHolder>>
    /\ UNCHANGED <<thread_segments, resp, wlen, decryptCalls, decryptFailed>>

\* lines 150-153: *c += 1, the guard is dropped, the next element or Ok(())
Incr(w) ==
    /\ Running /\ wpc[w] = "incr"
    /\ count' = count + 1
    /\ lockHolder' = -1
    /\ wi' = [wi EXCEPT ![w] = @ + 1]
    /\ wpc' = [wpc EXCEPT ![w] =
                 IF wi[w] + 1 < Len(thread_segments[w]) THEN "fetch" ELSE "done"]
    /\ retry_ctr' = [retry_ctr EXCEPT ![w] = 0]
    /\ fails' = [fails EXCEPT ![w] = 0]
    /\ UNCHANGED <<inputs, mainv, progv, chan>>
    /\ UNCHANGED <<thread_segments, resp, wlen, decryptCalls, decryptFailed>>

Worker(w, cap) ==
    \/ Fetch(w) \/ Retry(w) \/ LoopFetch(w) \/ LoopCheck(w, cap)
    \/ Decrypt(w) \/ Lock(w) \/ Send(w) \/ Incr(w)

\* ------------------------------------------------- download_segments body
\* lines 68-75: the partition of the segments over cpus vectors
PartitionStep ==
    /\ mpc = "partition"
    /\ segs' = Partition(total_segments, cpus)
    /\ mpc' = "spawn"
    /\ UNCHANGED <<inputs, progv, workv, chan, count, lockHolder>>
    /\ UNCHANGED <<num, sender, msg, data_pos, buf, sink, result, writeCalls, sinkFailed>>

SpawnWithLast ==
    /\ mpc = "spawn" /\ num < cpus
    /\ thread_segments' = [thread_segments EXCEPT ![num] = segs[Len(segs)]]
    /\ segs' = SubSeq(segs, 1, Len(segs) - 1)
    /\ wpc' = [wpc EXCEPT ![num] = FirstPc(segs[Len(segs)])]
    /\ num' = num + 1
    /\ UNCHANGED <<inputs, progv, chan, count, lockHolder>>
    /\ UNCHANGED <<mpc, sender, msg, data_pos, buf, sink, result, writeCalls, sinkFailed>>
    /\ UNCHANGED <<wi, retry_ctr, fails, resp, wlen, decryptCalls, decryptFailed>>

\* lines 80-85: one round of the spawn loop; the task gets segs.remove(0)
Spawn ==
    /\ mpc = "spawn" /\ num < cpus
    /\ thread_segments' = [thread_segments EXCEPT ![num] = Head(segs)]
    /\ segs' = Tail(segs)
    /\ wpc' = [wpc EXCEPT ![num] = FirstPc(Head(segs))]
    /\ num' = num + 1
    /\ UNCHANGED <<inputs, progv, chan, count, lockHolder>>
    /\ UNCHANGED <<mpc, sender, msg, data_pos, buf, sink, result, writeCalls, sinkFailed>>
    /\ UNCHANGED <<wi, retry_ctr, fails, resp, wlen, decryptCalls, decryptFailed>>

DropSenderForgotten ==
    /\ mpc = "spawn" /\ num = cpus
    /\ mpc' = "recv"
    /\ UNCHANGED <<inputs, progv, workv, chan, count, lockHolder>>
    /\ UNCHANGED <<segs, num, sender, msg, data_pos, buf, sink, result, writeCalls, sinkFailed>>

\* line 157: drop(sender), once the spawn loop is over
DropSender ==
    /\ mpc = "spawn" /\ num = cpus
    /\ sender' = FALSE
    /\ mpc' = "recv"
    /\ UNCHANGED <<inputs, progv, workv, chan, count, lockHolder>>
    /\ UNCHANGED <<segs, num, msg, data_pos, buf, sink, result, writeCalls, sinkFailed>>

\* some Sender of the channel is still alive
SendersAlive == sender \/ \E w \in Workers : HoldsSender(w)

\* line 160: receiver.iter() yields the next message
Recv ==
    /\ mpc = "recv" /\ chan # <<>>
    /\ msg' = Head(chan)
    /\ chan' = Tail(chan)
    /\ mpc' = IF level = "info" THEN "set_length" ELSE "place"
    /\ UNCHANGED <<inputs, progv, workv, count, lockHolder>>
    /\ UNCHANGED <<segs, num, sender, data_pos, buf, sink, result, writeCalls, sinkFailed>>

\* line 160: receiver.iter() ends: the channel is empty and every Sender gone
Closed ==
    /\ mpc = "recv" /\ chan = <<>> /\ ~SendersAlive
    /\ mpc' = "join"
    /\ UNCHANGED <<inputs, progv, workv, chan, count, lockHolder>>
    /\ UNCHANGED <<segs, num, sender, msg, data_pos, buf, sink, result, writeCalls, sinkFailed>>

ReconciledNoAdd(len, pos, n) == len - estimated_segment_len(bandwidth, length, pos)
ReconciledSwapped(len, pos, n) == len + estimated_segment_len(bandwidth, length, pos) - n
\* the new length of line 172: progress_len - estimated_segment_len + bytes_len
Reconciled(len, pos, n) == len - estimated_segment_len(bandwidth, length, pos) + n

\* lines 162-172: p.set_length(..)
SetLength ==
    /\ mpc = "set_length"
    /\ p_len' = Reconciled(p_len, msg.pos, msg.len)
    /\ mpc' = "inc"
    /\ UNCHANGED <<inputs, workv, chan, count, lockHolder, p_pos>>
    /\ UNCHANGED <<segs, num, sender, msg, data_pos, buf, sink, result, writeCalls, sinkFailed>>

\* line 173: p.inc(bytes_len)
Inc ==
    /\ mpc = "inc"
    /\ p_pos' = p_pos + msg.len
    /\ mpc' = "place"
    /\ UNCHANGED <<inputs, workv, chan, count, lockHolder, p_len>>
    /\ UNCHANGED <<segs, num, sender, msg, data_pos, buf, sink, result, writeCalls, sinkFailed>>

WriteAllErrorIgnored(b, after) ==
    /\ writeCalls' = writeCalls + 1
    /\ data_pos' = data_pos + 1
    /\ mpc' = after
    /\ UNCHANGED result
    /\ \/ sink' = Append(sink, b) /\ UNCHANGED sinkFailed
       \/ sinkFailed' = TRUE /\ UNCHANGED sink

\* writer.write_all(..)?: the sink takes the payload and the cursor moves on,
\* or the error is returned from download_segments
WriteAll(b, after) ==
    /\ writeCalls' = writeCalls + 1
    /\ \/ /\ sink' = Append(sink, b)
          /\ data_pos' = data_pos + 1
          /\ mpc' = after
          /\ UNCHANGED <<result, sinkFailed>>
       \/ /\ sinkFailed' = TRUE
          /\ result' = "err_write"
          /\ mpc' = "returned"
          /\ UNCHANGED <<sink, data_pos>>

\* buf.insert(pos, bytes)
Insert(m, pos, b) == {e \in m : e.pos # pos} \cup {[pos |-> pos, seg |-> b.seg, len |-> b.len]}

IsNextAlways(pos) == TRUE
\* line 176: data_pos == pos
IsNext(pos) == data_pos = pos

\* lines 176-181: write the message when it is the cursor's, else buffer it
Place ==
    /\ mpc = "place"
    /\ IF IsNext(msg.pos)
       THEN /\ WriteAll([seg |-> msg.seg, len |-> msg.len], "drain")
            /\ UNCHANGED buf
       ELSE /\ buf' = Insert(buf, msg.pos, msg)
            /\ mpc' = "drain"
            /\ UNCHANGED <<sink, data_pos, result, writeCalls, sinkFailed>>
    /\ msg' = NoMsg
    /\ UNCHANGED <<inputs, progv, workv, chan, count, lockHolder>>
    /\ UNCHANGED <<segs, num, sender>>

\* lines 182-185: one round of `while let Some(b) = buf.remove(&data_pos)`
Drain ==
    /\ mpc = "drain"
    /\ \E e \in buf :
         /\ e.pos = data_pos
         /\ buf' = buf \ {e}
         /\ WriteAll([seg |-> e.seg, len |-> e.len], "drain")
    /\ UNCHANGED <<inputs, progv, workv, chan, count, lockHolder>>
    /\ UNCHANGED <<segs, num, sender, msg>>

\* line 182: buf.remove(&data_pos) is None: the while loop ends
DrainEnd ==
    /\ mpc = "drain"
    /\ ~\E e \in buf : e.pos = data_pos
    /\ mpc' = IF level = "debug" THEN "debug" ELSE "recv"
    /\ UNCHANGED <<inputs, progv, workv, chan, count, lockHolder>>
    /\ UNCHANGED <<segs, num, sender, msg, data_pos, buf, sink, result, writeCalls, sinkFailed>>

\* line 186: debug!(.., *count.lock().unwrap()): the lock is taken, read
\* and released within the statement
Debug ==
    /\ mpc = "debug"
    /\ lockHolder = -1
    /\ mpc' = "recv"
    /\ UNCHANGED <<inputs, progv, workv, chan, count, lockHolder>>
    /\ UNCHANGED <<segs, num, sender, msg, data_pos, buf, sink, result, writeCalls, sinkFailed>>

\* the tasks whose result join_next() yields an error for
Failed(w) == wpc[w] \in {"err", "panic"}

JoinResultUnchecked == "ok"
\* what `joined??` makes of the tasks' results
JoinResult == IF \E w \in Workers : Failed(w) THEN "err_task" ELSE "ok"

\* lines 189-193: every task is joined; the first error is returned
Join ==
    /\ mpc = "join"
    /\ \A w \in Workers : Spawned(w) => Ended(w)
    /\ result' = JoinResult
    /\ mpc' = "returned"
    /\ UNCHANGED <<inputs, progv, workv, chan, count, lockHolder>>
    /\ UNCHANGED <<segs, num, sender, msg, data_pos, buf, sink, writeCalls, sinkFailed>>

Main ==
    \/ PartitionStep \/ Spawn \/ DropSender \/ Recv \/ Closed
    \/ SetLength \/ Inc \/ Place \/ Drain \/ DrainEnd \/ Debug \/ Join

\* a step of the function body or of a task, failed attempts counted to cap
Step(cap) == Main \/ \E w \in Workers : Worker(w, cap)

Next == Step(MaxFails)

Spec == Init /\ [][Next]_vars

\* the runs checked for termination: the function body and every spawned
\* task keep being scheduled (the tasks run on the runtime's threads, every
\* request ends within its timeout); what a request returns is up to the
\* transport
InitLive == Init /\ total_segments <= MaxLiveSegs
NextLive == Step(MaxLiveFails)
Fairness == WF_vars(Main) /\ \A w \in Workers : WF_vars(Worker(w, MaxLiveFails))
FairSpec == InitLive /\ [][NextLive]_vars /\ Fairness

\* =========================================================================
\* find_resolution and FFmpegPreset::ffmpeg_presets: the two functions of
\* utils.rs that download_segments does not call
\* =========================================================================

\* a VariantData: its resolution, and its url to tell two variants of one
\* resolution apart
Urls == {"a", "b"}
Variants == [resolution : [width : 1 .. MaxWidth, height : 1 .. MaxHeight], url : Urls]

RECURSIVE SeqsUpTo(_, _)
\* the sequences over S of length at most n
SeqsUpTo(S, n) == IF n = 0 THEN {<<>>} ELSE SeqsUpTo(S, n - 1) \cup [1 .. n -> S]

Some(v) == [tag |-> "Some", value |-> v]
None == [tag |-> "None"]
\* Option::unwrap on a None
Panic == [tag |-> "panic"]

RECURSIVE InsertByWidth(_, _)
\* v in front of the width-descending list s whose elements all came after v:
\* v goes before the first element that is not wider than v
InsertByWidth(v, s) ==
    IF s = <<>> THEN <<v>>
    ELSE IF Head(s).resolution.width > v.resolution.width
         THEN <<Head(s)>> \o InsertByWidth(v, Tail(s))
         ELSE <<v>> \o s

RECURSIVE SortByWidth(_)
\* sort_by(|a, b| a.resolution.width.cmp(&b.resolution.width).reverse()):
\* a stable sort, the widest first
SortByWidth(s) == IF s = <<>> THEN <<>> ELSE InsertByWidth(Head(s), SortByWidth(Tail(s)))

RECURSIVE Find(_, _)
\* into_iter().find(|v| resolution.height == u64::MAX
\*                      || v.resolution.height == resolution.height)
Find(s, res) ==
    IF s = <<>> THEN None
    ELSE IF res.height = U64_MAX \/ Head(s).resolution.height = res.height
         THEN Some(Head(s))
         ELSE Find(Tail(s), res)

\* into_iter().next().unwrap()
FirstUnwrap(s) == IF s = <<>> THEN Panic ELSE Some(s[1])
\* into_iter().last().unwrap()
LastUnwrap(s) == IF s = <<>> THEN Panic ELSE Some(s[Len(s)])

find_resolution(sd, res) ==
    LET sorted == SortByWidth(sd)
    IN  CASE res.height = U64_MAX -> FirstUnwrap(sorted)
          [] res.height = U64_MIN -> LastUnwrap(sorted)
          [] OTHER -> Find(sorted, res)

\* ---------------------------------------------------------- FFmpegPreset
FFmpegPreset == {"Nvidia", "Av1", "H265", "H264"}

to_string(p) ==
    CASE p = "Nvidia" -> "nvidia"
      [] p = "Av1" -> "av1"
      [] p = "H265" -> "h265"
      [] p = "H264" -> "h264"

Ok(input, output) == [tag |-> "Ok", input |-> input, output |-> output]
\* bail!: the message, the count it prints (0 if none) and the presets it lists
Err(text, n, names) == [tag |-> "Err", text |-> text, found |-> n, names |-> names]

\* presets.iter().position(|p| p == &preset), 1-based; 0 for None
Position(ps, preset) ==
    IF \E i \in 1 .. Len(ps) : ps[i] = preset
    THEN CHOOSE i \in 1 .. Len(ps) : ps[i] = preset /\ \A j \in 1 .. (i - 1) : ps[j] # preset
    ELSE 0

\* Vec::remove(i)
Remove(ps, i) == SubSeq(ps, 1, i - 1) \o SubSeq(ps, i + 1, Len(ps))

\* preset_check_remove: what it returns, and what it leaves in presets
preset_check_remove(ps, preset) ==
    LET i == Position(ps, preset)
    IN  IF i # 0 THEN [found |-> TRUE, presets |-> Remove(ps, i)]
        ELSE [found |-> FALSE, presets |-> ps]

\* one iteration of `for preset in presets` on the flags built so far
PresetFlags(preset, nvidia, acc) ==
    IF nvidia
    THEN CASE preset = "Av1" ->
                Err("'nvidia' hardware acceleration preset is not available in combination with the 'av1' codec preset", 0, <<"nvidia", "av1">>)
           [] preset = "H265" ->
                Ok(acc.input \o <<"-hwaccel", "cuvid", "-c:v", "h264_cuvid">>, acc.output \o <<"-c:v", "hevc_nvenc">>)
           [] preset = "H264" ->
                Ok(acc.input \o <<"-hwaccel", "cuvid", "-c:v", "h264_cuvid">>, acc.output \o <<"-c:v", "h264_nvenc">>)
           [] OTHER -> acc
    ELSE CASE preset = "Av1" -> Ok(acc.input, acc.output \o <<"-c:v", "libaom-av1">>)
           [] preset = "H265" -> Ok(acc.input, acc.output \o <<"-c:v", "libx265">>)
           [] preset = "H264" -> Ok(acc.input, acc.output \o <<"-c:v", "libx264">>)
           [] OTHER -> acc

RECURSIVE ForPresets(_, _, _)
\* the loop `for preset in presets`; bail! leaves it
ForPresets(ps, nvidia, acc) ==
    IF ps = <<>> \/ acc.tag = "Err" THEN acc
    ELSE ForPresets(Tail(ps), nvidia, PresetFlags(Head(ps), nvidia, acc))

FinishCopyOnly(acc) == Ok(acc.input, acc.output \o <<"-c", "copy">>)
\* the flags that end output: `-c copy` if no codec was chosen, else the
\* audio and subtitle streams are copied
Finish(acc) ==
    IF acc.input = <<>> /\ acc.output = <<>>
    THEN Ok(acc.input, acc.output \o <<"-c", "copy">>)
    ELSE IF acc.output = <<>>
         THEN Ok(acc.input, acc.output \o <<"-c", "copy">>)
         ELSE Ok(acc.input, acc.output \o <<"-c:a", "copy", "-c:s", "copy">>)

ffmpeg_presets(ps) ==
    LET r == preset_check_remove(ps, "Nvidia")
        nvidia == r.found
        rest == r.presets
    IN  IF Len(rest) > 1
        THEN Err("Can only use one video codec", Len(rest), [i \in 1 .. Len(rest) |-> to_string(rest[i])])
        ELSE LET acc == ForPresets(rest, nvidia, Ok(<<>>, <<>>))
             IN  IF acc.tag = "Err" THEN acc ELSE Finish(acc)

\* ------------------------------------------------- the helpers' own runs
\* the call of find_resolution, on any list of variants and any height
FindResolution ==
    /\ selected = NotCalled /\ flags = NotCalled
    /\ \E sd \in SeqsUpTo(Variants, MaxVariants), h \in Heights :
         /\ streaming_data' = sd
         /\ resolution' = [height |-> h]
         /\ selected' = find_resolution(sd, [height |-> h])
    /\ presets' = <<>>
    /\ flags' = NotCalled
    /\ UNCHANGED <<total_segments, cpus, level, bandwidth, length, size>>
    /\ UNCHANGED <<mainv, progv, workv, chan, count, lockHolder>>

\* the call of ffmpeg_presets, on any list of presets
FfmpegPresets ==
    /\ selected = NotCalled /\ flags = NotCalled
    /\ \E ps \in SeqsUpTo(FFmpegPreset, MaxPresets) :
         /\ presets' = ps
         /\ flags' = ffmpeg_presets(ps)
    /\ streaming_data' = <<>>
    /\ resolution' = [height |-> U64_MIN]
    /\ selected' = NotCalled
    /\ UNCHANGED <<total_segments, cpus, level, bandwidth, length, size>>
    /\ UNCHANGED <<mainv, progv, workv, chan, count, lockHolder>>

\* a run is one call of one of the two functions; there is no download in
\* it, whose variables stay where an empty one starts
UtilInit == InitDownload /\ UtilIdle /\ total_segments = 0 /\ cpus = 1 /\ level = "off"
UtilNext == FindResolution \/ FfmpegPresets
UtilSpec == UtilInit /\ [][UtilNext]_vars


\* ------------------------------------------------------------------ claims
\* the payload of the segment at index k
Payload(k) == [seg |-> k, len |-> size[k]]

\* C1: the payloads the sink holds are at every moment exactly those of
\* indices 0 .. data_pos-1 in that order, whatever order the messages reach
\* the loop in, and every step leaves the cursor alone or moves it by one.
C1_SinkInOrder ==
    /\ [](/\ Len(sink) = data_pos
          /\ \A k \in 1 .. Len(sink) : sink[k] = Payload(k - 1))
    /\ [][data_pos' = data_pos \/ data_pos' = data_pos + 1]_vars

\* indices 1 and 2 reached the loop before index 0 and were buffered, and
\* index 0 has just been written
C1_Witness ==
    /\ mpc = "drain" /\ data_pos = 1
    /\ sink = <<Payload(0)>>
    /\ {e.pos : e \in buf} = {1, 2}

\* the sub-lists s of m segments over n workers: n of them, sub-list w the
\* ascending segments i with i mod n = w, pairwise disjoint, all covered
PartitionOk(s, m, n) ==
    /\ Len(s) = n
    /\ \A w \in 0 .. (n - 1) :
         /\ \A k \in 1 .. Len(s[w + 1]) :
              /\ s[w + 1][k] \in 0 .. (m - 1)
              /\ s[w + 1][k] % n = w
         /\ \A j, k \in 1 .. Len(s[w + 1]) : j < k => s[w + 1][j] < s[w + 1][k]
    /\ \A i \in 0 .. (m - 1) :
         \E w \in 0 .. (n - 1) : \E k \in 1 .. Len(s[w + 1]) : s[w + 1][k] = i
    /\ \A v, w \in 0 .. (n - 1) :
         v # w => \A j \in 1 .. Len(s[v + 1]) : \A k \in 1 .. Len(s[w + 1]) :
                    s[v + 1][j] # s[w + 1][k]
    /\ m = 0 => \A w \in 1 .. n : s[w] = <<>>

\* C2: the partition the function computes, and the partition of every m
\* segments over every n workers up to MaxPartSegs and MaxPartCpus, gives
\* worker w the segments i with i mod n = w in their order, each segment to
\* exactly one worker.
C2_Partition ==
    (mpc = "spawn" /\ num = 0) =>
        /\ PartitionOk(segs, total_segments, cpus)
        /\ \A m \in 0 .. MaxPartSegs : \A n \in 1 .. MaxPartCpus :
             PartitionOk(Partition(m, n), m, n)

\* three segments have been split over two workers
C2_Witness ==
    /\ mpc = "spawn" /\ num = 0
    /\ total_segments = 3 /\ cpus = 2
    /\ segs = <<<<0, 2>>, <<1>>>>

\* C3 (as claimed): a fetch-decrypt worker makes no more than 5 attempts for
\* one segment, so a sixth request is never sent and a segment is fetched
\* and emitted only after fewer than 5 failed attempts.
C3_RetryBound ==
    \A w \in Workers :
        wpc[w] \in {"loop_chk", "decrypt", "lock", "send", "incr"} => fails[w] < 5

\* C4: download_segments returns Ok only with every segment written and the
\* buffer empty; when the channel closes with the buffer non-empty or the
\* cursor short of the total, the join loop returns an error.
C4_SuccessIsComplete ==
    /\ result = "ok" => (data_pos = total_segments /\ buf = {})
    /\ (mpc = "join" /\ (buf # {} \/ data_pos < total_segments)) => JoinResult # "ok"
    /\ (mpc = "returned" /\ (buf # {} \/ data_pos < total_segments)) => result # "ok"

\* the channel closed with a payload still buffered, and the error is returned
C4_Witness ==
    /\ mpc = "returned" /\ result = "err_task"
    /\ buf # {} /\ data_pos < total_segments

\* C5: consumed never exceeds the total estimate, in every state, the one
\* between set_length and inc included.
C5_ConsumedLeTotal == p_pos <= p_len

\* between set_length and inc of a non-empty payload, after earlier progress
C5_Witness ==
    /\ mpc = "inc" /\ level = "info"
    /\ msg.len > 0 /\ p_pos > 0

\* C8 (as claimed): no step lowers consumed or the total estimate.
C8_Monotone == [][p_pos' >= p_pos /\ p_len' >= p_len]_vars

\* C8 (amended): no step lowers consumed; the total estimate is lowered only
\* by set_length for a payload shorter than the segment's estimate, by the
\* difference, so it does not fall when the payload is at least the estimate.
C8_MonotoneButOverestimate ==
    [][/\ p_pos' >= p_pos
       /\ p_len' < p_len =>
            /\ mpc = "set_length"
            /\ msg.len < estimated_segment_len(bandwidth, length, msg.pos)
            /\ p_len' = p_len - (estimated_segment_len(bandwidth, length, msg.pos) - msg.len)]_vars

\* set_length has just lowered the total for an over-estimated segment
C8_Witness ==
    /\ mpc = "inc"
    /\ msg.len < estimated_segment_len(bandwidth, length, msg.pos)
    /\ p_len < estimated_file_size(bandwidth, length, total_segments)

\* the messages sent and not yet dropped: in the channel, in the loop's
\* hands, buffered
InFlight == {chan[k] : k \in 1 .. Len(chan)} \cup {msg} \cup buf

C10_WriteFatal ==
    /\ [](sinkFailed =>
            /\ result = "err_write" /\ mpc = "returned"
            /\ data_pos = Len(sink)
            /\ writeCalls = Len(sink) + 1)
    /\ [][sinkFailed => UNCHANGED <<sink, data_pos, writeCalls>>]_vars

\* the write of segment 1 failed after segment 0 was written
C10_Witness ==
    /\ sinkFailed /\ result = "err_write"
    /\ sink = <<Payload(0)>> /\ data_pos = 1
    /\ writeCalls = 2

\* no task has panicked or returned an error and no write has failed
NoFatal == ~sinkFailed /\ \A w \in Workers : wpc[w] \notin {"err", "panic"}
\* the worker is retrying a body read
InRetry(w) == wpc[w] \in {"retry", "loop", "loop_chk"}
\* download_segments has returned Ok with all written and all wound up
Succeeded ==
    /\ result = "ok" /\ data_pos = total_segments
    /\ buf = {} /\ chan = <<>> /\ ~SendersAlive
    /\ \A w \in Workers : Spawned(w) => wpc[w] = "done"

\* C6: when no request, decrypt call or write fails fatally and no worker
\* retries one segment for ever, the workers exhaust their sub-lists, the
\* channel closes, the buffer drains and download_segments returns Ok with
\* the cursor at the total.
C6_EventuallySucceeds ==
    ([]NoFatal /\ \A w \in Workers : []<>(~InRetry(w))) => <>Succeeded

\* two segments on two workers, all written
C6_Witness ==
    /\ Succeeded
    /\ total_segments = 2 /\ cpus = 2
    /\ Len(sink) = 2

\* C7 (as claimed): download_segments always returns, whatever the transport
\* does.
C7_Terminates == <>(result # "running")

\* ------------------------------------------------------- find_resolution
\* the variants of the list sd
Elems(sd) == {sd[i] : i \in DOMAIN sd}
\* v is the first of the widest variants of sd that satisfy want
FirstWidest(sd, v, want(_)) ==
    \E i \in DOMAIN sd :
        /\ sd[i] = v
        /\ want(v)
        /\ \A j \in DOMAIN sd : want(sd[j]) => sd[j].resolution.width <= v.resolution.width
        /\ \A j \in 1 .. (i - 1) : want(sd[j]) => sd[j].resolution.width < v.resolution.width

\* C11: whatever the list of variants, empty or not, and whatever the
\* requested height, find_resolution returns: for u64::MAX a variant of the
\* greatest width, for u64::MIN a variant of the least width, for any other
\* height the first variant in width-descending order that has this height,
\* and None, never a failure, when there is no such variant.
C11_FindResolution ==
    selected # NotCalled =>
        LET sd == streaming_data
            h == resolution.height
            HasHeight(v) == v.resolution.height = h
        IN  CASE h = U64_MAX ->
                   IF sd = <<>> THEN selected = None
                   ELSE /\ selected.tag = "Some"
                        /\ selected.value \in Elems(sd)
                        /\ \A u \in Elems(sd) : u.resolution.width <= selected.value.resolution.width
              [] h = U64_MIN ->
                   IF sd = <<>> THEN selected = None
                   ELSE /\ selected.tag = "Some"
                        /\ selected.value \in Elems(sd)
                        /\ \A u \in Elems(sd) : u.resolution.width >= selected.value.resolution.width
              [] OTHER ->
                   IF \E u \in Elems(sd) : HasHeight(u)
                   THEN selected.tag = "Some" /\ FirstWidest(sd, selected.value, HasHeight)
                   ELSE selected = None

\* --------------------------------------------------------- ffmpeg_presets
Codecs == {"Av1", "H265", "H264"}
HasPreset(ps, p) == \E i \in DOMAIN ps : ps[i] = p
\* the codec presets of the list ps, each one counted as often as it is given
CodecCount(ps) == Cardinality({i \in DOMAIN ps : ps[i] \in Codecs})
Conflict(ps) ==
    \/ CodecCount(ps) > 1
    \/ HasPreset(ps, "Nvidia") /\ HasPreset(ps, "Av1")

\* C12: whatever the list of presets, duplicates included, ffmpeg_presets
\* fails exactly when the list holds more than one codec preset or holds
\* nvidia together with av1, and the error names presets of the list; every
\* other list (at most one codec preset, with or without nvidia) is accepted.
C12_PresetValidation ==
    flags # NotCalled =>
        /\ (flags.tag = "Err") <=> Conflict(presets)
        /\ flags.tag = "Err" =>
              /\ Len(flags.names) >= 2
              /\ \A i \in DOMAIN flags.names :
                    \E j \in DOMAIN presets : flags.names[i] = to_string(presets[j])

StreamCopy == <<"-c:a", "copy", "-c:s", "copy">>
Cuvid == <<"-hwaccel", "cuvid", "-c:v", "h264_cuvid">>

\* C13: for every list of presets ffmpeg_presets accepts: with no codec
\* preset in it (the empty list, nvidia alone) there are no input flags and
\* the output flags are `-c copy`; with one codec preset and no nvidia there
\* are no input flags and the output flags are `-c:v` libaom-av1, libx265
\* or libx264 for av1, h265, h264, then `-c:a copy -c:s copy`; with nvidia
\* and h265 or h264 the input flags are `-hwaccel cuvid -c:v h264_cuvid` and
\* the output flags `-c:v` hevc_nvenc or h264_nvenc, then `-c:a copy -c:s copy`.
C13_FlagMapping ==
    flags # NotCalled /\ flags.tag = "Ok" =>
        LET nvidia == HasPreset(presets, "Nvidia")
            given == {p \in Codecs : HasPreset(presets, p)}
        IN  CASE given = {} ->
                   flags.input = <<>> /\ flags.output = <<"-c", "copy">>
              [] ~nvidia /\ given = {"Av1"} ->
                   flags.input = <<>> /\ flags.output = <<"-c:v", "libaom-av1">> \o StreamCopy
              [] ~nvidia /\ given = {"H265"} ->
                   flags.input = <<>> /\ flags.output = <<"-c:v", "libx265">> \o StreamCopy
              [] ~nvidia /\ given = {"H264"} ->
                   flags.input = <<>> /\ flags.output = <<"-c:v", "libx264">> \o StreamCopy
              [] nvidia /\ given = {"H265"} ->
                   flags.input = Cuvid /\ flags.output = <<"-c:v", "hevc_nvenc">> \o StreamCopy
              [] nvidia /\ given = {"H264"} ->
                   flags.input = Cuvid /\ flags.output = <<"-c:v", "h264_nvenc">> \o StreamCopy
              [] OTHER -> TRUE

\* nvidia with h265 was accepted
C13_Witness ==
    /\ flags # NotCalled /\ flags.tag = "Ok"
    /\ HasPreset(presets, "Nvidia") /\ HasPreset(presets, "H265")

\* ------------------------------------------------------------- fail-fast
\* C14: once a worker has ended fatally (a panic of send().unwrap(), an
\* error of decrypt), the operation is unwound at once: no other worker goes
\* on from a finished segment to fetch a further one.
C14_FailFast ==
    [][(\E v \in Workers : Failed(v)) =>
          \A w \in Workers : ~(wpc[w] = "incr" /\ wpc'[w] = "fetch")]_vars

\* ----------------------------------------------------- reassembly buffer
\* C15: between two messages (the insert-or-write and the drain loop over)
\* buf holds only positions above the cursor data_pos; the message being
\* processed is at or above the cursor, and so is, at any time, every entry
\* of buf: none is stranded below the cursor.
C15_BufferAboveCursor ==
    /\ mpc # "drain" => \A e \in buf : e.pos > data_pos
    /\ msg # NoMsg => msg.pos >= data_pos
    /\ \A e \in buf : e.pos >= data_pos

\* a later segment waits in buf, the drain loop over, after the cursor moved
C15_Witness == mpc = "recv" /\ data_pos > 0 /\ buf # {} /\ result = "running"

\* -------------------------------------------------- progress, exactness
\* the segments whose message went through set_length so far
IsReconciled(k) ==
    \/ k < data_pos
    \/ \E e \in buf : e.pos = k
    \/ msg.pos = k /\ mpc \in {"inc", "place"}

RECURSIVE ExactTotal(_)
\* actual lengths of the reconciled segments among 0..n-1, estimates of the others
ExactTotal(n) ==
    IF n = 0 THEN 0
    ELSE ExactTotal(n - 1) +
         (IF IsReconciled(n - 1) THEN size[n - 1]
          ELSE estimated_segment_len(bandwidth, length, n - 1))

\* C16: with the progress bar on, after any set S of segments was received
\* progress.length() is the sum of the actual payload lengths over S plus
\* the sum of (bandwidth / 8) * seconds over the segments not in S; the
\* difference progress_len - estimated_segment_len is never negative; and
\* when download_segments returns Ok, length == position == the sum of all
\* actual payload lengths.
C16_ExactReconciliation ==
    level = "info" =>
        /\ result = "running" => p_len = ExactTotal(total_segments)
        /\ mpc = "set_length" =>
              p_len - estimated_segment_len(bandwidth, length, msg.pos) >= 0
        /\ result = "ok" => p_len = p_pos /\ p_len = ExactTotal(total_segments)

\* a download of two or more segments returned Ok with a total that is not
\* the first estimate
C16_Witness ==
    /\ level = "info" /\ result = "ok" /\ total_segments >= 2
    /\ p_len # estimated_file_size(bandwidth, length, total_segments)

\* ---------------------------------------------------------- backpressure
\* the capacity the channel is checked against
ChanCap == 2

\* C17: the channel is bounded: the messages sent and not yet received
\* never exceed its capacity (a sender that would exceed it waits).
C17_BoundedChannel == Len(chan) <= ChanCap

\* -------------------------------------------------------- emitted indices
\* C18: a worker sends, for the i-th element of the sub-list segs.remove(0)
\* gave it, num + i * cpus, which is that segment's position in `segments`;
\* so no position is emitted twice, none is >= segments.len(), and each
\* worker's positions grow strictly.
C18_EmitOriginalIndex ==
    /\ \A w \in Workers : \A i \in 1 .. Len(thread_segments[w]) :
          /\ thread_segments[w][i] = w + ((i - 1) * cpus)
          /\ thread_segments[w][i] < total_segments
          /\ i > 1 => thread_segments[w][i - 1] < thread_segments[w][i]
    /\ \A i \in 1 .. Len(chan) :
          /\ chan[i].pos = chan[i].seg
          /\ chan[i].pos \in 0 .. (total_segments - 1)
          /\ \A j \in 1 .. Len(chan) : chan[j].pos = chan[i].pos => j = i
          /\ result = "running" =>
                /\ chan[i].pos >= data_pos /\ chan[i].pos # msg.pos
                /\ \A e \in buf : e.pos # chan[i].pos

\* with two or more workers, the first one's second message (i = 1, sent
\* as 0 + 1 * cpus) is in the channel
C18_Witness ==
    /\ cpus >= 2 /\ wpc[0] = "incr" /\ wi[0] = 1
    /\ \E i \in 1 .. Len(chan) : chan[i].pos = cpus

\* ---------------------------------------------------- completion counter
\* the messages worker w sent so far
SentBy(w) == wi[w] + (IF wpc[w] = "incr" THEN 1 ELSE 0)

RECURSIVE SentUpTo(_)
SentUpTo(n) == IF n = 0 THEN 0 ELSE SentUpTo(n - 1) + SentBy(n - 1)
\* the messages sent so far
Sent == SentUpTo(MaxCpus)

\* the workers between lock() and the drop of the guard
Holders == {w \in Workers : wpc[w] \in {"send", "incr"}}

\* C19: at most one worker holds the lock on count; count never exceeds the
\* number of messages sent, falls short of it by at most 1, and by 1 only
\* while a worker that holds the lock has sent and not yet incremented; when
\* every worker has returned Ok, count == segments.len().
C19_CounterUnderLock ==
    /\ Cardinality(Holders) <= 1
    /\ \A w \in Holders : lockHolder = w
    /\ count <= Sent /\ Sent <= count + 1
    /\ Sent = count + 1 <=> \E w \in Workers : wpc[w] = "incr" /\ lockHolder = w
    /\ result = "running" /\ ~sinkFailed =>
          Sent = data_pos + Cardinality(buf) + Len(chan) + (IF msg = NoMsg THEN 0 ELSE 1)
    /\ (mpc \notin {"partition", "spawn"} /\ \A w \in 0 .. (cpus - 1) : wpc[w] = "done") =>
          count = total_segments

\* a worker has sent and not yet incremented while another waits for the lock
C19_Witness ==
    /\ count >= 1
    /\ \E w, v \in Workers : wpc[w] = "incr" /\ wpc[v] = "lock"

\* ---------------------------------------------------------- no deadlock
\* C20: as long as download_segments has not returned, the function body
\* or some task can take a step.
C20_NoDeadlock == result = "running" => ENABLED Next

\* the function body waits at debug! for the lock that a worker holds while
\* it sends
C20_Witness ==
    /\ result = "running" /\ mpc = "debug"
    /\ lockHolder # -1 /\ wpc[lockHolder] = "send"

====
